---- MODULE Spec2Model ----
(***************************************************************************)
(* Model of ded's ex-style command line: the nom 4 grammar of              *)
(* parsing/src/cmd.rs (over a streaming &str input), the dispatcher of     *)
(* src/commands/mod.rs and the message buffer of src/view/messages.rs.     *)
(*                                                                         *)
(* A string is a sequence of one-character strings.  A usize or u64 value  *)
(* is its canonical decimal numeral (a sequence of digit characters with   *)
(* no leading zero), since the values at stake exceed TLC's integers.      *)
(***************************************************************************)
EXTENDS Integers, Sequences, FiniteSets, TLC

VARIABLES input, parsed, pc,
          messages, show_sidebar, guild_sidebar_visible, event_channel,
          op, args

vars == <<input, parsed, pc, messages, show_sidebar, guild_sidebar_visible,
          event_channel, op, args>>

parseVars == <<input, parsed, pc>>

appVars == <<messages, show_sidebar, guild_sidebar_visible, event_channel,
             op, args>>

(***************************************************************************)
(* Bounds.                                                                 *)
(***************************************************************************)
MaxParts == 4
MaxMsgs == 2
MaxEvents == 1
MaxHeight == 2

----------------------------------------------------------------------------
(***************************************************************************)
(* Characters and numerals.                                                *)
(***************************************************************************)
Digits == {"0", "1", "2", "3", "4", "5", "6", "7", "8", "9"}

DigitVal(c) ==
    CASE c = "0" -> 0 [] c = "1" -> 1 [] c = "2" -> 2 [] c = "3" -> 3
      [] c = "4" -> 4 [] c = "5" -> 5 [] c = "6" -> 6 [] c = "7" -> 7
      [] c = "8" -> 8 [] c = "9" -> 9

Min(S) == CHOOSE x \in S : \A y \in S : x <= y

\* usize::MAX on a 64-bit target, 18446744073709551615
UsizeMax ==
    <<"1", "8", "4", "4", "6", "7", "4", "4", "0", "7",
      "3", "7", "0", "9", "5", "5", "1", "6", "1", "5">>

\* the numeral of a digit run: leading zeros dropped
Canon(ds) ==
    LET nz == {k \in 1..Len(ds) : ds[k] # "0"}
    IN  IF nz = {} THEN <<"0">> ELSE SubSeq(ds, Min(nz), Len(ds))

\* numeral a <= numeral b
NumLeq(a, b) ==
    \/ Len(a) < Len(b)
    \/ /\ Len(a) = Len(b)
       /\ LET d == {k \in 1..Len(a) : a[k] # b[k]}
          IN  d = {} \/ DigitVal(a[Min(d)]) < DigitVal(b[Min(d)])

----------------------------------------------------------------------------
(***************************************************************************)
(* nom 4 results over a streaming input.                                   *)
(***************************************************************************)
Ok(rest, out) == [tag |-> "Ok", rest |-> rest, out |-> out]
Error == [tag |-> "Error"]
Incomplete == [tag |-> "Incomplete"]

\* a conversion that never fails, whatever the magnitude
from_str_unchecked(ds) == [ok |-> TRUE, val |-> Canon(ds)]

\* <usize as FromStr>::from_str on a digit run: fails when the value
\* does not fit the type
from_str(ds) ==
    IF ds # <<>> /\ NumLeq(Canon(ds), UsizeMax)
    THEN [ok |-> TRUE, val |-> Canon(ds)]
    ELSE [ok |-> FALSE]

\* nom::digit: one or more decimal digits; the end of the input inside the
\* run is Incomplete
digit(i) ==
    LET nd == {k \in 1..Len(i) : i[k] \notin Digits}
    IN  IF nd = {} THEN Incomplete
        ELSE IF Min(nd) = 1 THEN Error
        ELSE Ok(SubSeq(i, Min(nd), Len(i)), SubSeq(i, 1, Min(nd) - 1))

\* char!(c)
char(i, c) ==
    IF i = <<>> THEN Incomplete
    ELSE IF i[1] = c THEN Ok(Tail(i), c)
    ELSE Error

\* take_until!(c)
take_until(i, c) ==
    LET at == {k \in 1..Len(i) : i[k] = c}
    IN  IF at = {} THEN Incomplete
        ELSE Ok(SubSeq(i, Min(at), Len(i)), SubSeq(i, 1, Min(at) - 1))

\* alt!: the next alternative is tried on Error only
alt(a, b) == IF a.tag = "Error" THEN b ELSE a

\* do_parse!'s ">>": the next parser runs on what an Ok result left, and any
\* other result is the result of the whole
and_then(r, next(_)) == IF r.tag = "Ok" THEN next(r) ELSE r

\* map_res!: an Err of the conversion is an Error of the parser
map_res(r, f(_)) ==
    and_then(r, LAMBDA d : IF f(d.out).ok THEN Ok(d.rest, f(d.out).val)
                           ELSE Error)

number(i) == map_res(digit(i), from_str)

Fixed(n) == [kind |-> "Fixed", val |-> n]
Moment(n) == [kind |-> "Moment", val |-> n]
Search(q) == [kind |-> "Search", val |-> q]

fixed(i) == and_then(number(i), LAMBDA n : Ok(n.rest, Fixed(n.out)))

moment(i) ==
    and_then(char(i, "#"), LAMBDA h :
    and_then(map_res(digit(h.rest), from_str), LAMBDA n :
    Ok(n.rest, Moment(n.out))))

search(i) ==
    and_then(char(i, "/"), LAMBDA a :
    and_then(take_until(a.rest, "/"), LAMBDA query :
    and_then(char(query.rest, "/"), LAMBDA b :
    Ok(b.rest, Search(query.out)))))

endpoint(i) == alt(fixed(i), alt(moment(i), search(i)))

Single(e) == [kind |-> "Single", left |-> e]
DoubledEnded(l, r) == [kind |-> "DoubledEnded", left |-> l, right |-> r]
PastToPresent(e) == [kind |-> "PastToPresent", left |-> e]
NoRange == [kind |-> "None"]

single(i) == and_then(endpoint(i), LAMBDA e : Ok(e.rest, Single(e.out)))

double_ended(i) ==
    and_then(endpoint(i), LAMBDA l :
    and_then(char(l.rest, ","), LAMBDA c :
    and_then(endpoint(c.rest), LAMBDA r :
    Ok(r.rest, DoubledEnded(l.out, r.out)))))

past_to_present(i) ==
    and_then(endpoint(i), LAMBDA e :
    and_then(char(e.rest, ","), LAMBDA c :
    Ok(c.rest, PastToPresent(e.out))))

range(i) == alt(double_ended(i), alt(past_to_present(i), single(i)))

\* opt! left out: the range is required
opt_required(r, i) == r

\* opt!: Error becomes an absent value with nothing consumed
opt(r, i) ==
    IF r.tag = "Ok" THEN r
    ELSE IF r.tag = "Error" THEN Ok(i, NoRange)
    ELSE r

\* rest_s: the whole remaining input
rest_s(i) == Ok(<<>>, i)

Command(r, c) == [range |-> r, command |-> c]

command(i) ==
    and_then(opt(range(i), i), LAMBDA r :
    and_then(rest_s(r.rest), LAMBDA c :
    Ok(c.rest, Command(r.out, c.out))))

None == [tag |-> "None"]
Some(c) == [tag |-> "Some", cmd |-> c]

\* Ok((_, cmd)) => Some(cmd), _ => None
to_option(r) == IF r.tag = "Ok" THEN Some(r.out) ELSE None

parse_cmd(s) == to_option(command(s))

----------------------------------------------------------------------------
(***************************************************************************)
(* The inputs of the parser: every concatenation of at most MaxParts       *)
(* parts.                                                                  *)
(***************************************************************************)
UsizeMaxPlus1 ==
    <<"1", "8", "4", "4", "6", "7", "4", "4", "0", "7",
      "3", "7", "0", "9", "5", "5", "1", "6", "1", "6">>

Parts ==
    {<<"0">>, <<"5">>, <<",">>, <<"#">>, <<"/">>, <<"d">>, <<" ">>,
     <<"/", "d", "/">>, UsizeMax, UsizeMaxPlus1}

RECURSIVE Concat(_)
Concat(ss) == IF ss = <<>> THEN <<>> ELSE Head(ss) \o Concat(Tail(ss))

Inputs ==
    {Concat(ps) : ps \in UNION {[1..n -> Parts] : n \in 0..MaxParts}}

NotParsed == [tag |-> "NotParsed"]

InitParse ==
    /\ input \in Inputs
    /\ parsed = NotParsed
    /\ pc = "start"
    /\ messages = <<>>
    /\ show_sidebar = FALSE
    /\ guild_sidebar_visible = FALSE
    /\ event_channel = <<>>
    /\ op = "new"
    /\ args = <<>>

ParseCmd ==
    /\ pc = "start"
    /\ parsed' = parse_cmd(input)
    /\ pc' = "done"
    /\ UNCHANGED <<input, appVars>>

NextParse == ParseCmd

SpecParse == InitParse /\ [][NextParse]_vars

----------------------------------------------------------------------------
(***************************************************************************)
(* The dispatcher (CommandHandler) and the message view (Messages).        *)
(***************************************************************************)
ChannelIds == {1, 2}
MessageIds == {1, 2}

quit == <<"q", "u", "i", "t">>
q == <<"q">>
nick == <<"n", "i", "c", "k">>
clearnick == <<"c", "l", "e", "a", "r", "n", "i", "c", "k">>
cnick == <<"c", "n", "i", "c", "k">>
setchannel == <<"s", "e", "t", "c", "h", "a", "n", "n", "e", "l">>
schan == <<"s", "c", "h", "a", "n">>
togglesidebar ==
    <<"t", "o", "g", "g", "l", "e", "s", "i", "d", "e", "b", "a", "r">>
tbar == <<"t", "b", "a", "r">>

ShutdownAll == [type |-> "ShutdownAll"]
SetChannel(id) == [type |-> "SetChannel", id |-> id]

\* str::split_whitespace
RECURSIVE split_whitespace(_)
split_whitespace(s) ==
    IF s = <<>> THEN <<>>
    ELSE IF Head(s) = " " THEN split_whitespace(Tail(s))
    ELSE LET ws == {k \in 1..Len(s) : s[k] = " "}
             e == IF ws = {} THEN Len(s) + 1 ELSE Min(ws)
         IN  <<SubSeq(s, 1, e - 1)>> \o split_whitespace(SubSeq(s, e, Len(s)))

\* the last token taken for the keyword
last_token(split_cmd) ==
    IF split_cmd = <<>> THEN <<>> ELSE split_cmd[Len(split_cmd)]

\* split_cmd.get(0).cloned().unwrap_or_default()
first_token(split_cmd) ==
    IF split_cmd = <<>> THEN <<>> ELSE split_cmd[1]

\* u64::MAX, 18446744073709551615
U64Max ==
    <<"1", "8", "4", "4", "6", "7", "4", "4", "0", "7",
      "3", "7", "0", "9", "5", "5", "1", "6", "1", "5">>

\* new_chan.parse(): a decimal u64, with an optional leading '+'
parse_id(tok) ==
    LET ds == IF tok # <<>> /\ tok[1] = "+" THEN Tail(tok) ELSE tok
    IN  IF /\ ds # <<>>
           /\ \A k \in 1..Len(ds) : ds[k] \in Digits
           /\ NumLeq(Canon(ds), U64Max)
        THEN [ok |-> TRUE, val |-> Canon(ds)]
        ELSE [ok |-> FALSE]

\* the events one call of execute sends
execute_events(c) ==
    LET p == parse_cmd(c)
    IN  IF p.tag # "Some" THEN <<>>
        ELSE LET split_cmd == split_whitespace(p.cmd.command)
                 kw == first_token(split_cmd)
             IN  IF kw \in {quit, q} THEN <<ShutdownAll>>
                 ELSE IF /\ kw \in {setchannel, schan}
                         /\ Len(split_cmd) >= 2
                         /\ parse_id(split_cmd[2]).ok
                 THEN <<SetChannel(parse_id(split_cmd[2]).val)>>
                 ELSE <<>>

\* whether one call of execute runs the togglesidebar arm
execute_toggles(c) ==
    LET p == parse_cmd(c)
    IN  /\ p.tag = "Some"
        /\ first_token(split_whitespace(p.cmd.command))
               \in {togglesidebar, tbar}

\* the command lines typed: a keyword line, alone or behind a range or other
\* text, and two lines the parser has no Command for
RangePrefixes ==
    {<<"5">>, <<"5", ",">>, <<"/", "a", "/">>, <<"1", ",", "2">>,
     <<"x", " ">>, <<" ">>}

Keywords ==
    {quit, q, nick, clearnick, cnick, setchannel, schan, togglesidebar, tbar,
     <<"x">>, <<>>}

Tails == {<<>>, <<" ", "7">>, <<" ", "x">>}

CmdInputs ==
    {k \o t : k \in Keywords, t \in Tails}
        \cup {p \o l : p \in RangePrefixes,
                       l \in {q, schan \o <<" ", "7">>, tbar}}
        \cup {<<"5">>, <<"5", ",">>}

Init ==
    /\ input = <<>>
    /\ parsed = NotParsed
    /\ pc = "start"
    /\ messages = <<>>
    /\ show_sidebar \in BOOLEAN
    /\ guild_sidebar_visible \in BOOLEAN
    /\ event_channel = <<>>
    /\ op = "new"
    /\ args = <<>>

Execute(c) ==
    /\ Len(event_channel) < MaxEvents
    /\ event_channel' = event_channel \o execute_events(c)
    /\ show_sidebar' = IF execute_toggles(c) THEN ~show_sidebar
                       ELSE show_sidebar
    /\ op' = "execute"
    /\ args' = [cmd |-> c]
    /\ UNCHANGED <<parseVars, messages, guild_sidebar_visible>>

AddMsg(ch, id) ==
    /\ Len(messages) < MaxMsgs
    /\ \A k \in 1..Len(messages) : messages[k].id # id
    /\ messages' = Append(messages, [channel_id |-> ch, id |-> id])
    /\ op' = "add_msg"
    /\ args' = [channel_id |-> ch, message_id |-> id]
    /\ UNCHANGED <<parseVars, show_sidebar, guild_sidebar_visible,
                   event_channel>>

\* Vec::remove of the first message that matches, if any
delete_msg(msgs, ch, id) ==
    LET hit == {k \in 1..Len(msgs) :
                    msgs[k].channel_id = ch /\ msgs[k].id = id}
    IN  IF hit = {} THEN msgs
        ELSE SubSeq(msgs, 1, Min(hit) - 1)
                 \o SubSeq(msgs, Min(hit) + 1, Len(msgs))

DeleteMsg(ch, id) ==
    /\ messages' = delete_msg(messages, ch, id)
    /\ op' = "delete_msg"
    /\ args' = [channel_id |-> ch, message_id |-> id]
    /\ UNCHANGED <<parseVars, show_sidebar, guild_sidebar_visible,
                   event_channel>>

\* the predicate of Vec::retain in delete_msg_bulk
bulk_retains(msg, ch, ids) ==
    msg.channel_id # ch /\ msg.id \notin ids

delete_msg_bulk(msgs, ch, ids) ==
    SelectSeq(msgs, LAMBDA msg : bulk_retains(msg, ch, ids))

DeleteMsgBulk(ch, ids) ==
    /\ messages' = delete_msg_bulk(messages, ch, ids)
    /\ op' = "delete_msg_bulk"
    /\ args' = [channel_id |-> ch, message_ids |-> ids]
    /\ UNCHANGED <<parseVars, show_sidebar, guild_sidebar_visible,
                   event_channel>>

\* msgs.drain(0..msgs.len().saturating_sub(height))
drain(msgs, height) ==
    IF Len(msgs) > height
    THEN SubSeq(msgs, Len(msgs) - height + 1, Len(msgs))
    ELSE msgs

Render(height) ==
    /\ show_sidebar' = guild_sidebar_visible
    /\ messages' = drain(messages, height)
    /\ op' = "render"
    /\ args' = [height |-> height]
    /\ UNCHANGED <<parseVars, guild_sidebar_visible, event_channel>>

Next ==
    \/ \E c \in CmdInputs : Execute(c)
    \/ \E ch \in ChannelIds, id \in MessageIds : AddMsg(ch, id)
    \/ \E ch \in ChannelIds, id \in MessageIds : DeleteMsg(ch, id)
    \/ \E ch \in ChannelIds, ids \in SUBSET MessageIds : DeleteMsgBulk(ch, ids)
    \/ \E height \in 0..MaxHeight : Render(height)

Spec == Init /\ [][Next]_vars

----------------------------------------------------------------------------
(***************************************************************************)
(* The grammar of the command line, as the specification words it:         *)
(*   fixed := digit+    moment := "#" digit+    search := "/" [^/]* "/"    *)
(***************************************************************************)
\* the length of the longest run of digits s starts with
DigitRunLen(s) ==
    LET nd == {k \in 1..Len(s) : s[k] \notin Digits}
    IN  IF nd = {} THEN Len(s) ELSE Min(nd) - 1

\* the length of the endpoint s starts with, 0 when it starts with none
GrammarEndpointLen(s) ==
    IF DigitRunLen(s) > 0 THEN DigitRunLen(s)
    ELSE IF s # <<>> /\ s[1] = "#" /\ DigitRunLen(Tail(s)) > 0
    THEN 1 + DigitRunLen(Tail(s))
    ELSE IF s # <<>> /\ s[1] = "/" /\ \E k \in 2..Len(s) : s[k] = "/"
    THEN Min({k \in 2..Len(s) : s[k] = "/"})
    ELSE 0

\* the endpoint s starts with, a number of any magnitude carried as its numeral
GrammarEndpoint(s) ==
    LET n == GrammarEndpointLen(s)
    IN  IF s[1] = "#" THEN Moment(Canon(SubSeq(s, 2, n)))
        ELSE IF s[1] = "/" THEN Search(SubSeq(s, 2, n - 1))
        ELSE Fixed(Canon(SubSeq(s, 1, n)))

\* the text after the first endpoint and the comma that follows it
AfterComma(s) == SubSeq(s, GrammarEndpointLen(s) + 2, Len(s))

\* s is an endpoint followed by a comma
EndpointComma(s) ==
    /\ GrammarEndpointLen(s) > 0
    /\ Len(s) > GrammarEndpointLen(s)
    /\ s[GrammarEndpointLen(s) + 1] = ","

\* the length of the text the range r spans at the start of s
RangeSpan(r, s) ==
    IF r.kind = "None" THEN 0
    ELSE IF r.kind = "Single" THEN GrammarEndpointLen(s)
    ELSE IF r.kind = "PastToPresent" THEN GrammarEndpointLen(s) + 1
    ELSE GrammarEndpointLen(s) + 1 + GrammarEndpointLen(AfterComma(s))

\* s starts with a digit run, or '#' and a digit run, that a non-digit follows
StartsWithRun(s) ==
    LET t == IF s # <<>> /\ s[1] = "#" THEN Tail(s) ELSE s
    IN  DigitRunLen(t) > 0 /\ DigitRunLen(t) < Len(t)

\* the numeral of that run
RunOf(s) ==
    LET t == IF s[1] = "#" THEN Tail(s) ELSE s
    IN  Canon(SubSeq(t, 1, DigitRunLen(t)))

----------------------------------------------------------------------------
(***************************************************************************)
(* The parser's claims, under SpecParse.                                   *)
(***************************************************************************)

\* C1: parse_cmd is total: every input, the empty one and one that ends
\* inside a range token included, yields a Command, never None.
C1_ParseTotal == pc = "done" => parsed.tag = "Some"

\* C2: reconstruction law: for every input the text the matched range spans
\* (nothing when the range is none) followed by the returned command text is
\* the input, character for character.
C2_Reconstruction ==
    pc = "done" =>
        /\ parsed.tag = "Some"
        /\ SubSeq(input, 1, RangeSpan(parsed.cmd.range, input))
               \o parsed.cmd.command = input

\* C3: an input whose first character is not a digit, '#' or '/' yields no
\* range and the whole input, unchanged, as the command.
C3_NoRangeOnOtherStart ==
    (pc = "done" /\ input # <<>> /\ input[1] \notin Digits \cup {"#", "/"})
        => parsed = Some(Command(NoRange, input))

C3_Witness ==
    /\ pc = "done"
    /\ input = <<",", "#", "5", "d">>
    /\ parsed = Some(Command(NoRange, input))

\* C4: an endpoint e, a comma, and a text t that does not start with an
\* endpoint (t empty or an unfinished endpoint included) yield
\* PastToPresent(e) and the command t.
C4_PastToPresent ==
    (pc = "done" /\ EndpointComma(input)
         /\ GrammarEndpointLen(AfterComma(input)) = 0)
        => parsed = Some(Command(PastToPresent(GrammarEndpoint(input)),
                                 AfterComma(input)))

\* C5: an endpoint e1, a comma, an endpoint e2 and any rest r, empty or not,
\* yield DoubledEnded(e1, e2) and the command r.
C5_DoubledEnded ==
    (pc = "done" /\ EndpointComma(input)
         /\ GrammarEndpointLen(AfterComma(input)) > 0)
        => parsed =
               Some(Command(
                   DoubledEnded(GrammarEndpoint(input),
                                GrammarEndpoint(AfterComma(input))),
                   SubSeq(AfterComma(input),
                          GrammarEndpointLen(AfterComma(input)) + 1,
                          Len(AfterComma(input)))))

\* C6: a leading '/' with no later '/' yields no range and the whole input
\* as the command.
C6_UnterminatedSearch ==
    (pc = "done" /\ input # <<>> /\ input[1] = "/"
         /\ \A k \in 2..Len(input) : input[k] # "/")
        => parsed = Some(Command(NoRange, input))

----------------------------------------------------------------------------
(***************************************************************************)
(* The dispatcher's and the view's claims, under Spec.                     *)
(***************************************************************************)
\* the tokens of the command text the parser returns for the line c
CommandTokens(c) ==
    IF parse_cmd(c).tag = "Some"
    THEN split_whitespace(parse_cmd(c).cmd.command)
    ELSE <<>>

\* the events one step appends to the channel
Sent == SubSeq(event_channel', Len(event_channel) + 1, Len(event_channel'))

\* C8: one call of execute sends at most one event, decided by the first
\* token of the parsed command text alone: ShutdownAll exactly for quit and
\* q, SetChannel(id) exactly for setchannel and schan with a second token
\* that parses as an id, and nothing otherwise, whatever range precedes.
C8_Dispatch ==
    [][op' = "execute" =>
        LET t == CommandTokens(args'.cmd)
        IN  /\ SubSeq(event_channel', 1, Len(event_channel)) = event_channel
            /\ Len(Sent) <= 1
            /\ (Sent = <<ShutdownAll>>) <=> (t # <<>> /\ t[1] \in {quit, q})
            /\ (Sent # <<>> /\ Sent # <<ShutdownAll>>)
                   <=> /\ t # <<>>
                       /\ t[1] \in {setchannel, schan}
                       /\ Len(t) >= 2
                       /\ parse_id(t[2]).ok
            /\ (Sent # <<>> /\ Sent # <<ShutdownAll>>)
                   => Sent = <<SetChannel(parse_id(t[2]).val)>>]_vars

C8_Witness ==
    /\ op = "execute"
    /\ args.cmd = <<"5", ",">> \o schan \o <<" ", "7">>
    /\ event_channel = <<SetChannel(<<"7">>)>>

\* C9: delete_msg_bulk removes exactly the messages of the given channel
\* whose id is listed, and keeps every other message in its order.
C9_BulkDeleteExact ==
    [][op' = "delete_msg_bulk" =>
        messages' =
            SelectSeq(messages,
                      LAMBDA m : ~(/\ m.channel_id = args'.channel_id
                                   /\ m.id \in args'.message_ids))]_vars

\* C10: a toggle command negates the sidebar flag, and the flag then keeps
\* its value through whatever is not a toggle command, render included.
C10_ToggleSticks ==
    [][/\ (op' = "execute" /\ execute_toggles(args'.cmd))
            => show_sidebar' = ~show_sidebar
       /\ (/\ op = "execute" /\ execute_toggles(args.cmd)
           /\ ~(op' = "execute" /\ execute_toggles(args'.cmd)))
            => show_sidebar' = show_sidebar]_vars

====
